---------------------------- MODULE Spec2Model ----------------------------
(***************************************************************************)
(* The query pipeline of the video-statistics bot: src/bot/bot.py          *)
(* (VideoStatsBot.process_query), src/bot/security.py (QueryValidator),    *)
(* src/bot/parser.py (QueryParser), src/bot/llm.py (DeepSeekLLM) and the   *)
(* older handler of src/main.py (process_natural_language_query).          *)
(*                                                                         *)
(* A Python str is a sequence of characters, one TLA+ string per code      *)
(* point.  ASCII characters stand for themselves.  A Cyrillic letter is    *)
(* written by its transliteration, "cy_s" for the small letter ES          *)
(* (U+0441) and "CY_S" for the capital one (U+0421); CyrLower and          *)
(* CyrUpper list the 33 letters in alphabet order.  None is a value that   *)
(* is no str.  "BACKTICK" is the grave accent (U+0060), and <fence> in a   *)
(* comment is three of them.                                               *)
(***************************************************************************)
EXTENDS Integers, Sequences, FiniteSets, TLC

\* ------------------------------------------------------------ characters

LatLower == <<"a", "b", "c", "d", "e", "f", "g", "h", "i", "j", "k", "l", "m",
              "n", "o", "p", "q", "r", "s", "t", "u", "v", "w", "x", "y", "z">>

LatUpper == <<"A", "B", "C", "D", "E", "F", "G", "H", "I", "J", "K", "L", "M",
              "N", "O", "P", "Q", "R", "S", "T", "U", "V", "W", "X", "Y", "Z">>

CyrLower == <<"cy_a", "cy_b", "cy_v", "cy_g", "cy_d", "cy_e", "cy_yo", "cy_zh",
              "cy_z", "cy_i", "cy_j", "cy_k", "cy_l", "cy_m", "cy_n", "cy_o",
              "cy_p", "cy_r", "cy_s", "cy_t", "cy_u", "cy_f", "cy_h", "cy_c",
              "cy_ch", "cy_sh", "cy_sch", "cy_hard", "cy_y", "cy_soft",
              "cy_eh", "cy_yu", "cy_ya">>

CyrUpper == <<"CY_A", "CY_B", "CY_V", "CY_G", "CY_D", "CY_E", "CY_YO", "CY_ZH",
              "CY_Z", "CY_I", "CY_J", "CY_K", "CY_L", "CY_M", "CY_N", "CY_O",
              "CY_P", "CY_R", "CY_S", "CY_T", "CY_U", "CY_F", "CY_H", "CY_C",
              "CY_CH", "CY_SH", "CY_SCH", "CY_HARD", "CY_Y", "CY_SOFT",
              "CY_EH", "CY_YU", "CY_YA">>

Lowers == LatLower \o CyrLower

Uppers == LatUpper \o CyrUpper

Digits == <<"0", "1", "2", "3", "4", "5", "6", "7", "8", "9">>

Range(f) == {f[i] : i \in DOMAIN f}

LowerSet == Range(Lowers)

UpperSet == Range(Uppers)

WordSet == LowerSet \cup UpperSet \cup Range(Digits) \cup {"_"}

LowerOf == [c \in UpperSet |-> Lowers[CHOOSE i \in DOMAIN Uppers : Uppers[i] = c]]

UpperOf == [c \in LowerSet |-> Uppers[CHOOSE i \in DOMAIN Lowers : Lowers[i] = c]]

\* str.lower() and str.upper() on one character
Lower(c) == IF c \in UpperSet THEN LowerOf[c] ELSE c

Upper(c) == IF c \in LowerSet THEN UpperOf[c] ELSE c

\* what str.split(), str.strip() and the regex class \s take for whitespace
IsSpace(c) == c \in {" ", "\t", "\n", "\r"}

\* the regex class \w of a str pattern: letters, digits and the underscore
IsWordChar(c) == c \in WordSet

\* --------------------------------------------------------------- strings

LowerStr(s) == [i \in 1..Len(s) |-> Lower(s[i])]

UpperStr(s) == [i \in 1..Len(s) |-> Upper(s[i])]

\* s[p:p+len(w)] == w
IsAt(s, w, p) == /\ p >= 1
                 /\ p + Len(w) - 1 <= Len(s)
                 /\ \A j \in 1..Len(w) : s[p + j - 1] = w[j]

\* w in s
Contains(s, w) == \E p \in 1..(Len(s) - Len(w) + 1) : IsAt(s, w, p)

\* s.startswith(w)
StartsWith(s, w) == IsAt(s, w, 1)

\* s.count(c) for a one-character c
Count(s, c) == Cardinality({i \in 1..Len(s) : s[i] = c})

\* s.strip()
Strip(s) ==
    LET ns == {i \in 1..Len(s) : ~IsSpace(s[i])}
    IN  IF ns = {} THEN <<>>
        ELSE SubSeq(s, CHOOSE i \in ns : \A j \in ns : i <= j,
                       CHOOSE i \in ns : \A j \in ns : i >= j)

\* s.split(): the maximal runs of non-whitespace, in order
Split(s) ==
    LET n == Len(s)
        idx == [i \in 1..n |-> i]
        IsStart(i) == ~IsSpace(s[i]) /\ (i = 1 \/ IsSpace(s[i - 1]))
        IsEnd(i) == ~IsSpace(s[i]) /\ (i = n \/ IsSpace(s[i + 1]))
        starts == SelectSeq(idx, IsStart)
        ends == SelectSeq(idx, IsEnd)
    IN  [k \in 1..Len(starts) |-> SubSeq(s, starts[k], ends[k])]

\* sep.join(words)
RECURSIVE Join(_, _)
Join(sep, words) ==
    IF words = <<>> THEN <<>>
    ELSE IF Len(words) = 1 THEN words[1]
    ELSE words[1] \o sep \o Join(sep, Tail(words))

\* re.search(rf'\b{re.escape(word)}\b', s, re.IGNORECASE) finds a match:
\* the word at some place, letter case ignored, with no word character next
\* to it on either side (every deny-listed word begins and ends with one)
ReSearchWord(word, s) ==
    LET n == Len(word)
    IN  \E p \in 1..(Len(s) - n + 1) :
            /\ \A j \in 1..n : Lower(s[p + j - 1]) = Lower(word[j])
            /\ (p = 1 \/ ~IsWordChar(s[p - 1]))
            /\ (p + n - 1 = Len(s) \/ ~IsWordChar(s[p + n]))

\* Optional[str]: None is no str, so it is no sequence of characters
None == <<"None">>

\* bool(s) of an Optional[str]
Truthy(s) == s # None /\ s # <<>>

\* ---------------------------------------------------- src/bot/config.py

MAX_QUERY_LENGTH == 500

ALLOWED_KEYWORDS == <<
    <<"cy_s", "cy_k", "cy_o", "cy_l", "cy_soft", "cy_k", "cy_o">>,
    <<"cy_v", "cy_i", "cy_d", "cy_e", "cy_o">>,
    <<"cy_p", "cy_r", "cy_o", "cy_s", "cy_m", "cy_o", "cy_t", "cy_r", "cy_o",
      "cy_v">>,
    <<"cy_l", "cy_a", "cy_j", "cy_k", "cy_o", "cy_v">>,
    <<"cy_k", "cy_o", "cy_m", "cy_m", "cy_e", "cy_n", "cy_t", "cy_a", "cy_r",
      "cy_i", "cy_e", "cy_v">>,
    <<"cy_zh", "cy_a", "cy_l", "cy_o", "cy_b">>,
    <<"cy_k", "cy_r", "cy_e", "cy_a", "cy_t", "cy_o", "cy_r", "cy_a">>,
    <<"cy_v", "cy_y", "cy_r", "cy_o", "cy_s", "cy_l", "cy_o">>,
    <<"cy_v", "cy_y", "cy_r", "cy_o", "cy_s", "cy_l", "cy_i">>,
    <<"cy_p", "cy_r", "cy_i", "cy_r", "cy_o", "cy_s", "cy_t">>,
    <<"cy_r", "cy_a", "cy_z", "cy_n", "cy_y", "cy_h">>,
    <<"cy_n", "cy_o", "cy_v", "cy_y", "cy_h">>,
    <<"cy_v", "cy_s", "cy_e", "cy_g", "cy_o">>,
    <<"cy_b", "cy_o", "cy_l", "cy_soft", "cy_sh", "cy_e">>,
    <<"cy_m", "cy_e", "cy_n", "cy_soft", "cy_sh", "cy_e">>,
    <<"cy_s", "cy_i", "cy_s", "cy_t", "cy_e", "cy_m", "cy_e">>,
    <<"cy_v", "cy_r", "cy_e", "cy_m", "cy_e", "cy_n", "cy_i">>,
    <<"cy_v", "cy_k", "cy_l", "cy_yu", "cy_ch", "cy_i", "cy_t", "cy_e",
      "cy_l", "cy_soft", "cy_n", "cy_o">>,
    <<"cy_s">>,
    <<"cy_p", "cy_o">>,
    <<"cy_n", "cy_a">>,
    <<"cy_s", "cy_u", "cy_m", "cy_m", "cy_e">> >>

FORBIDDEN_WORDS == <<
    <<"d", "r", "o", "p">>,
    <<"d", "e", "l", "e", "t", "e">>,
    <<"i", "n", "s", "e", "r", "t">>,
    <<"u", "p", "d", "a", "t", "e">>,
    <<"t", "r", "u", "n", "c", "a", "t", "e">>,
    <<"a", "l", "t", "e", "r">>,
    <<"c", "r", "e", "a", "t", "e">>,
    <<"g", "r", "a", "n", "t">>,
    <<"r", "e", "v", "o", "k", "e">>,
    <<"e", "x", "e", "c">>,
    <<"p", "a", "s", "s", "w", "o", "r", "d">>,
    <<"t", "o", "k", "e", "n">>,
    <<"s", "e", "c", "r", "e", "t">>,
    <<"k", "e", "y">>,
    <<"a", "d", "m", "i", "n">> >>

\* -------------------------------------------------- src/bot/security.py

\* the length check, one character too lenient
validate_query_length_off_by_one(query) == Len(query) <= MAX_QUERY_LENGTH + 1

validate_query_length(query) == Len(query) <= MAX_QUERY_LENGTH

sanitize_input(query) == Join(<<" ">>, Split(query))

\* the deny-list scan without the word boundaries of its pattern
check_forbidden_words_substring(query) ==
    LET q_lower == LowerStr(query)
    IN  ~\E k \in 1..Len(FORBIDDEN_WORDS) : Contains(q_lower, FORBIDDEN_WORDS[k])

\* TRUE when no deny-listed word is found
check_forbidden_words(query) ==
    LET q_lower == LowerStr(query)
    IN  ~\E k \in 1..Len(FORBIDDEN_WORDS) : ReSearchWord(FORBIDDEN_WORDS[k], q_lower)

\* the intent gate letting every text through
validate_intent_always(query) == TRUE

validate_intent(query) ==
    LET q_lower == LowerStr(query)
    IN  \E k \in 1..Len(ALLOWED_KEYWORDS) : Contains(q_lower, ALLOWED_KEYWORDS[k])

\* re.match(r'^\s*SELECT\b', sql_upper)
\* ReMatchSelect with no \b after SELECT
ReMatchSelectPrefix(sql_upper) ==
    LET ns == {i \in 1..Len(sql_upper) : ~IsSpace(sql_upper[i])}
        p == IF ns = {} THEN Len(sql_upper) + 1
             ELSE CHOOSE i \in ns : \A j \in ns : i <= j
    IN  IsAt(sql_upper, <<"S", "E", "L", "E", "C", "T">>, p)

ReMatchSelect(sql_upper) ==
    LET ns == {i \in 1..Len(sql_upper) : ~IsSpace(sql_upper[i])}
        p == IF ns = {} THEN Len(sql_upper) + 1
             ELSE CHOOSE i \in ns : \A j \in ns : i <= j
    IN  /\ IsAt(sql_upper, <<"S", "E", "L", "E", "C", "T">>, p)
        /\ (p + 5 = Len(sql_upper) \/ ~IsWordChar(sql_upper[p + 6]))

\* the reasons validate_sql gives
REASON_EMPTY ==
    <<"CY_P", "cy_u", "cy_s", "cy_t", "cy_o", "cy_j", " ", "S", "Q", "L">>

REASON_NOT_SELECT ==
    <<"CY_R", "cy_a", "cy_z", "cy_r", "cy_e", "cy_sh", "cy_e", "cy_n",
      "cy_y", " ", "cy_t", "cy_o", "cy_l", "cy_soft", "cy_k", "cy_o", " ",
      "S", "E", "L", "E", "C", "T", "-", "cy_z", "cy_a", "cy_p", "cy_r",
      "cy_o", "cy_s", "cy_y">>

REASON_FORBIDDEN(forbidden) ==
    <<"CY_O", "cy_b", "cy_n", "cy_a", "cy_r", "cy_u", "cy_zh", "cy_e",
      "cy_n", "cy_a", " ", "cy_z", "cy_a", "cy_p", "cy_r", "cy_e", "cy_sch",
      "cy_yo", "cy_n", "cy_n", "cy_a", "cy_ya", " ", "cy_o", "cy_p", "cy_e",
      "cy_r", "cy_a", "cy_c", "cy_i", "cy_ya", ":", " ">>
    \o UpperStr(forbidden)

REASON_MULTIPLE ==
    <<"CY_O", "cy_b", "cy_n", "cy_a", "cy_r", "cy_u", "cy_zh", "cy_e",
      "cy_n", "cy_o", " ", "cy_n", "cy_e", "cy_s", "cy_k", "cy_o", "cy_l",
      "cy_soft", "cy_k", "cy_o", " ", "cy_z", "cy_a", "cy_p", "cy_r", "cy_o",
      "cy_s", "cy_o", "cy_v">>

REASON_COMMENTS ==
    <<"CY_O", "cy_b", "cy_n", "cy_a", "cy_r", "cy_u", "cy_zh", "cy_e",
      "cy_n", "cy_y", " ", "S", "Q", "L", "-", "cy_k", "cy_o", "cy_m",
      "cy_m", "cy_e", "cy_n", "cy_t", "cy_a", "cy_r", "cy_i", "cy_i">>

REASON_OK == <<"O", "K">>

\* the pair (valid, reason)
validate_sql(sql) ==
    LET sql_upper == Strip(UpperStr(sql))
        hits == {k \in 1..Len(FORBIDDEN_WORDS) : ReSearchWord(FORBIDDEN_WORDS[k], sql)}
    IN  IF ~Truthy(sql) THEN <<FALSE, REASON_EMPTY>>
        ELSE IF ~ReMatchSelect(sql_upper) THEN <<FALSE, REASON_NOT_SELECT>>
        ELSE IF hits # {}
             THEN <<FALSE, REASON_FORBIDDEN(
                      FORBIDDEN_WORDS[CHOOSE k \in hits : \A j \in hits : k <= j])>>
        ELSE IF Count(sql, ";") > 1 THEN <<FALSE, REASON_MULTIPLE>>
        ELSE IF Contains(sql, <<"-", "-">>) \/ Contains(sql, <<"/", "*">>)
             THEN <<FALSE, REASON_COMMENTS>>
        ELSE <<TRUE, REASON_OK>>

\* ---------------------------------------------------- src/bot/parser.py

SQL_TOTAL_VIDEOS ==
    <<"S", "E", "L", "E", "C", "T", " ", "C", "O", "U", "N", "T", "(", "*",
      ")", " ", "F", "R", "O", "M", " ", "v", "i", "d", "e", "o", "s">>

PHRASE_TOTAL_VIDEOS ==
    <<"cy_s", "cy_k", "cy_o", "cy_l", "cy_soft", "cy_k", "cy_o", " ", "cy_v",
      "cy_s", "cy_e", "cy_g", "cy_o", " ", "cy_v", "cy_i", "cy_d", "cy_e",
      "cy_o">>

\* the parser asking for the phrase and nothing else
parse_query_exact(query) ==
    LET q == Strip(LowerStr(query))
    IN  IF q = PHRASE_TOTAL_VIDEOS THEN SQL_TOTAL_VIDEOS ELSE None

\* the parser without query.lower()
parse_query_case_sensitive(query) ==
    LET q == Strip(query)
    IN  IF Contains(q, PHRASE_TOTAL_VIDEOS) THEN SQL_TOTAL_VIDEOS ELSE None

parse_query(query) ==
    LET q == Strip(LowerStr(query))
    IN  IF Contains(q, PHRASE_TOTAL_VIDEOS) THEN SQL_TOTAL_VIDEOS ELSE None

\* ------------------------------------------------------- src/bot/llm.py

FENCE == <<"BACKTICK", "BACKTICK", "BACKTICK">>

\* re.sub(r'<fence>sql?\n?', '', sql, flags=re.IGNORECASE): every match, taken
\* from the left, is cut out: three backticks and "sq", then an "l" and a
\* line feed when they follow
RECURSIVE ReSubFence(_)
ReSubFence(sql) ==
    IF sql = <<>> THEN <<>>
    ELSE IF IsAt(LowerStr(sql), FENCE \o <<"s", "q">>, 1)
         THEN LET a == IF Len(sql) >= 6 /\ Lower(sql[6]) = "l" THEN 6 ELSE 5
                  b == IF Len(sql) > a /\ sql[a + 1] = "\n" THEN a + 1 ELSE a
              IN  ReSubFence(SubSeq(sql, b + 1, Len(sql)))
         ELSE <<sql[1]>> \o ReSubFence(Tail(sql))

\* ReplaceFence with the first fence cut out only
ReplaceFenceOnce(sql) ==
    LET at == {p \in 1..Len(sql) : IsAt(sql, FENCE, p)}
    IN  IF at = {} THEN sql
        ELSE LET p == CHOOSE q \in at : \A r \in at : q <= r
             IN  SubSeq(sql, 1, p - 1) \o SubSeq(sql, p + 3, Len(sql))

\* sql.replace(<fence>, '')
RECURSIVE ReplaceFence(_)
ReplaceFence(sql) ==
    IF sql = <<>> THEN <<>>
    ELSE IF IsAt(sql, FENCE, 1)
         THEN ReplaceFence(SubSeq(sql, 4, Len(sql)))
         ELSE <<sql[1]>> \o ReplaceFence(Tail(sql))

\* What the POST to the service comes to: outcome "raise" is an exception
\* out of the session (the timeout, a connection error); otherwise a
\* status, and with status 200 a JSON body that either holds
\* choices[0].message.content as a str (wellformed) or does not.
\* NO_RESPONSE: the POST is not over.
NO_RESPONSE == [outcome |-> "none", status |-> 0, wellformed |-> FALSE, content |-> <<>>]

HttpRaise == [outcome |-> "raise", status |-> 0, wellformed |-> FALSE, content |-> <<>>]

HttpStatus(status) == [outcome |-> "http", status |-> status, wellformed |-> FALSE, content |-> <<>>]

HttpMalformed == [outcome |-> "http", status |-> 200, wellformed |-> FALSE, content |-> <<>>]

HttpContent(content) == [outcome |-> "http", status |-> 200, wellformed |-> TRUE, content |-> content]

\* DeepSeekLLM.generate_sql, given what the POST came to
generate_sql(response) ==
    IF response.outcome = "raise" THEN None
    ELSE IF response.status = 200
         THEN IF ~response.wellformed THEN None
              ELSE LET sql0 == Strip(response.content)
                       sql1 == ReSubFence(sql0)
                       sql == Strip(ReplaceFence(sql1))
                   IN  IF StartsWith(UpperStr(sql), <<"S", "E", "L", "E", "C", "T">>)
                       THEN sql
                       ELSE None
         ELSE None

\* ----------------------------------------------------------- src/main.py

\* re.search(r'<fence>sql\s*(.*?)\s*<fence>', text, re.DOTALL): the set of places
\* where a match can begin, and for a beginning i the group: it starts
\* after the whitespace that follows <fence>"sql" and ends before the first
\* place from which only whitespace and then <fence> follow
FenceStarts(text) ==
    {i \in 1..Len(text) :
        /\ IsAt(text, FENCE \o <<"s", "q", "l">>, i)
        /\ \E f \in (i + 6)..Len(text) : IsAt(text, FENCE, f)}

FenceGroup(text, i) ==
    LET n == Len(text)
        ns == {j \in (i + 6)..n : ~IsSpace(text[j])}
        s == CHOOSE j \in ns : \A k \in ns : j <= k
        closes(e) == \E f \in e..n : /\ IsAt(text, FENCE, f)
                                     /\ \A k \in e..(f - 1) : IsSpace(text[k])
        es == {e \in s..n : closes(e)}
        e == CHOOSE j \in es : \A k \in es : j <= k
    IN  SubSeq(text, s, e - 1)

\* text.split('\n')
SplitLines(text) ==
    LET n == Len(text)
        brk == {i \in 1..n : text[i] = "\n"}
        from == <<1>> \o SelectSeq([i \in 1..n |-> i + 1], LAMBDA j : (j - 1) \in brk)
    IN  [k \in 1..Len(from) |->
            SubSeq(text, from[k],
                   IF k = Len(from) THEN n ELSE from[k + 1] - 2)]

\* SQLQueryOutputParser.parse
parse(text) ==
    LET starts == FenceStarts(text)
        lines == SplitLines(text)
        sel == {k \in 1..Len(lines) :
                  StartsWith(UpperStr(Strip(lines[k])), <<"S", "E", "L", "E", "C", "T">>)}
    IN  IF starts # {}
        THEN Strip(FenceGroup(text, CHOOSE i \in starts : \A j \in starts : i <= j))
        ELSE IF sel # {}
             THEN Strip(lines[CHOOSE k \in sel : \A j \in sel : k <= j])
             ELSE Strip(text)

\* re.search(r"id\s+([a-zA-Z0-9]+)", query): the group of the leftmost
\* match, or None
IsAsciiAlnum(c) == c \in Range(LatLower) \cup Range(LatUpper) \cup Range(Digits)

CreatorId(query) ==
    LET n == Len(query)
        \* the first place after the whitespace that follows "id" at p
        after(p) == LET ns == {j \in (p + 2)..n : ~IsSpace(query[j])}
                    IN  IF ns = {} THEN n + 1 ELSE CHOOSE j \in ns : \A k \in ns : j <= k
        hits == {p \in 1..n : /\ IsAt(query, <<"i", "d">>, p)
                              /\ after(p) > p + 2
                              /\ after(p) <= n
                              /\ IsAsciiAlnum(query[after(p)])}
        p0 == CHOOSE p \in hits : \A k \in hits : p <= k
        stop == {j \in after(p0)..n : ~IsAsciiAlnum(query[j])}
        last == IF stop = {} THEN n ELSE (CHOOSE j \in stop : \A k \in stop : j <= k) - 1
    IN  IF hits = {} THEN None ELSE SubSeq(query, after(p0), last)

WORD_VIEWS ==
    <<"cy_p", "cy_r", "cy_o", "cy_s", "cy_m", "cy_o", "cy_t", "cy_r", "cy_o",
      "cy_v">>

\* re.search(r"(\d+)\s+<WORD_VIEWS>", query): the group of the leftmost
\* match, or None
ViewDigits(query) ==
    LET n == Len(query)
        IsDigit(c) == c \in Range(Digits)
        \* the first place after the digits that begin at p
        dend(p) == LET nd == {j \in p..n : ~IsDigit(query[j])}
                   IN  IF nd = {} THEN n + 1 ELSE CHOOSE j \in nd : \A k \in nd : j <= k
        \* the first place after the whitespace that begins at d
        wend(d) == LET ns == {j \in d..n : ~IsSpace(query[j])}
                   IN  IF ns = {} THEN n + 1 ELSE CHOOSE j \in ns : \A k \in ns : j <= k
        hits == {p \in 1..n : /\ IsDigit(query[p])
                              /\ wend(dend(p)) > dend(p)
                              /\ IsAt(query, WORD_VIEWS, wend(dend(p)))}
        p0 == CHOOSE p \in hits : \A k \in hits : p <= k
    IN  IF hits = {} THEN None ELSE SubSeq(query, p0, dend(p0) - 1)

\* int(digits)
RECURSIVE StrToNat(_)
StrToNat(digits) ==
    IF digits = <<>> THEN 0
    ELSE 10 * StrToNat(SubSeq(digits, 1, Len(digits) - 1))
           + (CHOOSE i \in DOMAIN Digits : Digits[i] = digits[Len(digits)]) - 1

\* ------------------------------------------------------- src/bot/bot.py

\* MESSAGES, but for 'start', which only the /start handler sends
MESSAGES == [
  invalid_intent |->
    <<"CY_YA", " ", "cy_o", "cy_t", "cy_v", "cy_e", "cy_ch", "cy_a", "cy_yu",
      " ", "cy_t", "cy_o", "cy_l", "cy_soft", "cy_k", "cy_o", " ", "cy_n",
      "cy_a", " ", "cy_v", "cy_o", "cy_p", "cy_r", "cy_o", "cy_s", "cy_y",
      " ", "cy_o", " ", "cy_s", "cy_t", "cy_a", "cy_t", "cy_i", "cy_s",
      "cy_t", "cy_i", "cy_k", "cy_e", " ", "cy_v", "cy_i", "cy_d", "cy_e",
      "cy_o", ".", " ", "CY_P", "cy_o", "cy_p", "cy_r", "cy_o", "cy_b",
      "cy_u", "cy_j", "cy_t", "cy_e", " ", "cy_p", "cy_e", "cy_r", "cy_e",
      "cy_f", "cy_o", "cy_r", "cy_m", "cy_u", "cy_l", "cy_i", "cy_r", "cy_o",
      "cy_v", "cy_a", "cy_t", "cy_soft", " ", "cy_v", "cy_o", "cy_p", "cy_r",
      "cy_o", "cy_s", ".">>,
  invalid_sql |->
    <<"CY_N", "cy_e", " ", "cy_u", "cy_d", "cy_a", "cy_l", "cy_o", "cy_s",
      "cy_soft", " ", "cy_o", "cy_b", "cy_r", "cy_a", "cy_b", "cy_o", "cy_t",
      "cy_a", "cy_t", "cy_soft", " ", "cy_z", "cy_a", "cy_p", "cy_r", "cy_o",
      "cy_s", ".", " ", "CY_P", "cy_o", "cy_p", "cy_r", "cy_o", "cy_b",
      "cy_u", "cy_j", "cy_t", "cy_e", " ", "cy_d", "cy_r", "cy_u", "cy_g",
      "cy_o", "cy_j", " ", "cy_v", "cy_o", "cy_p", "cy_r", "cy_o", "cy_s",
      ".">>,
  error |->
    <<"CY_P", "cy_r", "cy_o", "cy_i", "cy_z", "cy_o", "cy_sh", "cy_l",
      "cy_a", " ", "cy_o", "cy_sh", "cy_i", "cy_b", "cy_k", "cy_a", ".", " ",
      "CY_P", "cy_o", "cy_p", "cy_r", "cy_o", "cy_b", "cy_u", "cy_j", "cy_t",
      "cy_e", " ", "cy_p", "cy_o", "cy_z", "cy_zh", "cy_e", ".">>,
  too_long |->
    <<"CY_V", "cy_o", "cy_p", "cy_r", "cy_o", "cy_s", " ", "cy_s", "cy_l",
      "cy_i", "cy_sh", "cy_k", "cy_o", "cy_m", " ", "cy_d", "cy_l", "cy_i",
      "cy_n", "cy_n", "cy_y", "cy_j", ".", " ", "CY_S", "cy_f", "cy_o",
      "cy_r", "cy_m", "cy_u", "cy_l", "cy_i", "cy_r", "cy_u", "cy_j", "cy_t",
      "cy_e", " ", "cy_k", "cy_o", "cy_r", "cy_o", "cy_ch", "cy_e", ".">> ]

\* A scalar that conn.fetchval returns: SQL NULL (Python None) or an integer
Null == [isnull |-> TRUE, val |-> 0]

Scalar(n) == [isnull |-> FALSE, val |-> n]

RECURSIVE NatStr(_)
NatStr(n) == IF n < 10 THEN <<Digits[n + 1]>>
             ELSE NatStr(n \div 10) \o <<Digits[(n % 10) + 1]>>

\* str(result)
Str(result) == IF result.isnull THEN <<"N", "o", "n", "e">>
               ELSE IF result.val < 0 THEN <<"-">> \o NatStr(-result.val)
               ELSE NatStr(result.val)

\* result if result else 0
ValueOrZero(result) == IF result.isnull \/ result.val = 0 THEN 0 ELSE result.val

\* ---------------------------------------------------------------- bounds

\* a question is at most MaxFrags of the fragments below, one after another
MaxFrags == 3

\* ---------------------------------------------------------------- inputs

\* the total-count phrase with its capital letter, as MESSAGES['start'] spells it
FRAG_PHRASE ==
    <<"CY_S", "cy_k", "cy_o", "cy_l", "cy_soft", "cy_k", "cy_o", " ", "cy_v",
      "cy_s", "cy_e", "cy_g", "cy_o", " ", "cy_v", "cy_i", "cy_d", "cy_e",
      "cy_o">>

\* the rest of the first example question of MESSAGES['start']
FRAG_REST ==
    <<" ", "cy_e", "cy_s", "cy_t", "cy_soft", " ", "cy_v", " ", "cy_s",
      "cy_i", "cy_s", "cy_t", "cy_e", "cy_m", "cy_e", "?">>

\* small talk, with no allow-list keyword in it
FRAG_HELLO ==
    <<"cy_p", "cy_r", "cy_i", "cy_v", "cy_e", "cy_t">>

\* MAX_QUERY_LENGTH - 1 letters: one more character is the longest text
\* the length check lets through, two more are too long
FRAG_PAD == [i \in 1..(MAX_QUERY_LENGTH - 1) |-> "a"]

\* a deny-listed word in mixed case; after another fragment's letters it is
\* part of a longer word
FRAG_DROP == <<"D", "r", "o", "p">>

Frags == << <<" ">>, <<"\t">>, FRAG_DROP, FRAG_PHRASE, FRAG_REST, FRAG_HELLO, FRAG_PAD >>

RECURSIVE Texts(_)
Texts(n) == IF n = 0 THEN {<<>>}
            ELSE LET shorter == Texts(n - 1)
                 IN  shorter \cup {t \o Frags[i] : t \in shorter, i \in DOMAIN Frags}

\* message.text: a text, or None for a message that carries none
Queries == Texts(MaxFrags) \cup {None}

\* answers of the generative service
LLM_CONTENTS == {
    <<"S", "E", "L", "E", "C", "T", " ", "C", "O", "U", "N", "T", "(", "*",
      ")", " ", "F", "R", "O", "M", " ", "v", "i", "d", "e", "o", "s">>,
    <<"BACKTICK", "BACKTICK", "BACKTICK", "s", "q", "l", "\n", "S", "E", "L",
      "E", "C", "T", " ", "C", "O", "U", "N", "T", "(", "*", ")", " ", "F",
      "R", "O", "M", " ", "v", "i", "d", "e", "o", "s", ";", "\n",
      "BACKTICK", "BACKTICK", "BACKTICK">>,
    <<" ", " ", "s", "e", "l", "e", "c", "t", " ", "s", "u", "m", "(", "d",
      "e", "l", "t", "a", "_", "v", "i", "e", "w", "s", "_", "c", "o", "u",
      "n", "t", ")", " ", "f", "r", "o", "m", " ", "v", "i", "d", "e", "o",
      "_", "s", "n", "a", "p", "s", "h", "o", "t", "s", " ">>,
    <<"S", "E", "L", "E", "C", "T", " ", "1", ";", " ", "S", "E", "L", "E",
      "C", "T", " ", "2">>,
    <<"S", "E", "L", "E", "C", "T", " ", "1", ";", " ", "S", "E", "L", "E",
      "C", "T", " ", "2", ";">>,
    <<"S", "E", "L", "E", "C", "T", " ", "1", ";", " ", "D", "R", "O", "P",
      " ", "T", "A", "B", "L", "E", " ", "v", "i", "d", "e", "o", "s">>,
    <<"S", "E", "L", "E", "C", "T", " ", "1", " ", "-", "-", " ", "a", "l",
      "l">>,
    <<"S", "E", "L", "E", "C", "T", " ", "/", "*", " ", "a", "l", "l", " ",
      "*", "/", " ", "1">>,
    <<"S", "E", "L", "E", "C", "T", "E", "D">>,
    <<"D", "R", "O", "P", " ", "T", "A", "B", "L", "E", " ", "v", "i", "d",
      "e", "o", "s">>,
    <<"CY_V", "cy_o", "cy_t", " ", "cy_z", "cy_a", "cy_p", "cy_r", "cy_o",
      "cy_s", ":", " ", "S", "E", "L", "E", "C", "T", " ", "1">>,
    <<>> }

LLM_RESPONSES == {HttpRaise, HttpStatus(500), HttpMalformed}
                   \cup {HttpContent(c) : c \in LLM_CONTENTS}

\* what conn.fetchval comes to: an exception, or a scalar
NO_FETCH == [outcome |-> "none", result |-> Null]

FETCH_RAISE == [outcome |-> "raise", result |-> Null]

FetchReturns(result) == [outcome |-> "return", result |-> result]

FETCH_OUTCOMES == {FETCH_RAISE, FetchReturns(Null)}
                    \cup {FetchReturns(Scalar(n)) : n \in {0, 7, -12}}

\* ----------------------------------------------------------------- state

VARIABLES
    llm,        \* self.llm is set: the generative capability is present
    raw,        \* message.text, as the handler got it
    pc,         \* where the request stands: "start", then the await it is
                \* suspended at ("generate_sql", "acquire", "fetchval"), "done"
    query,      \* the local query, reassigned by sanitize_input
    sql,        \* the local sql (sql_query in src/main.py)
    args,       \* the arguments that go to conn.fetchval with the statement
    method,     \* the local method
    generated,  \* what self.llm.generate_sql returned, None before that
    fetched,    \* what conn.fetchval came to, NO_FETCH before that
    calls,      \* the stages called so far, in the order of the calls
    verdict,    \* the argument and the return of the validate_sql call
    executed,   \* the statements handed to conn.fetchval, with their arguments
    returned,   \* what process_query returned
    answer,     \* what the handler sent with message.answer
    posted,     \* what the POST of a generate_sql call taken alone came to
    requests,   \* the frames of the process_query calls in flight, by request
    run_i,      \* the loop variable i of run
    checked,    \* what the check_db_connection calls of run returned, in order
    handlers,   \* setup_handlers has registered the message handlers
    polling     \* self.dp.start_polling has been called

\* the state of generate_sql taken alone, of the concurrent requests, and
\* of run
llmvars == <<posted>>

concvars == <<requests>>

runvars == <<run_i, checked, handlers, polling>>

vars == <<llm, raw, pc, query, sql, args, method, generated, fetched, calls,
          verdict, executed, returned, answer, llmvars, concvars, runvars>>

\* one message is handled, by one process_query call, and run is not modelled
OneRequest ==
    /\ posted = NO_RESPONSE
    /\ requests = <<>>
    /\ run_i = 0
    /\ checked = <<>>
    /\ handlers = FALSE
    /\ polling = FALSE

NoVerdict == [sql |-> None, valid |-> FALSE, reason |-> <<>>]

NoReturn == [value |-> 0, success |-> FALSE, message |-> None]

\* VideoStatsBot.__init__, and a message that handle_message has just got
Init ==
    /\ llm \in BOOLEAN
    /\ raw \in Queries
    /\ pc = "start"
    /\ query = raw
    /\ sql = None
    /\ args = <<>>
    /\ method = "NONE"
    /\ generated = None
    /\ fetched = NO_FETCH
    /\ calls = <<>>
    /\ verdict = NoVerdict
    /\ executed = <<>>
    /\ returned = NoReturn
    /\ answer = None
    /\ OneRequest

\* return value, success, message; handle_message then answers the message
Return(value, success, message) ==
    /\ pc' = "done"
    /\ returned' = [value |-> value, success |-> success, message |-> message]
    /\ answer' = message

\* Except with the exception leaving process_query
ExceptPropagates ==
    /\ pc' = "raised"
    /\ UNCHANGED <<returned, answer>>

\* an exception in the try block of process_query: "except Exception as e"
\* returns the fixed failure
Except == Return(0, FALSE, MESSAGES.error)

\* Validate with the verdict of validate_sql not acted on
ValidateUnguarded(c, s) ==
    IF ~Truthy(s)
    THEN /\ calls' = c
         /\ Return(0, FALSE, MESSAGES.invalid_sql)
         /\ UNCHANGED verdict
    ELSE LET v == validate_sql(s)
         IN  /\ calls' = c \o <<"validate_sql">>
             /\ verdict' = [sql |-> s, valid |-> v[1], reason |-> v[2]]
             /\ pc' = "acquire"
             /\ UNCHANGED <<returned, answer>>

\* process_query from "if not sql" on: the safety gate, then the pool
Validate(c, s) ==
    IF ~Truthy(s)
    THEN /\ calls' = c
         /\ Return(0, FALSE, MESSAGES.invalid_sql)
         /\ UNCHANGED verdict
    ELSE LET v == validate_sql(s)
         IN  /\ calls' = c \o <<"validate_sql">>
             /\ verdict' = [sql |-> s, valid |-> v[1], reason |-> v[2]]
             /\ IF ~v[1]
                THEN Return(0, FALSE, MESSAGES.invalid_sql)
                ELSE /\ pc' = "acquire"
                     /\ UNCHANGED <<returned, answer>>

\* Translate with the parser asked first and the generative result used
\* only when the parser has none
TranslateParserFirst(c, q, s) ==
    LET p == parse_query(q)
    IN  IF Truthy(p)
        THEN /\ sql' = p
             /\ method' = "PARSER"
             /\ Validate(c \o <<"parse_query">>, p)
        ELSE /\ sql' = s
             /\ method' = IF Truthy(s) THEN "DEEPSEEK" ELSE "NONE"
             /\ Validate(c \o <<"parse_query">>, s)

\* process_query once the generative attempt (s, None when there was none)
\* is over: the fallback to the parser, then Validate
Translate(c, q, s) ==
    IF Truthy(s)
    THEN /\ sql' = s
         /\ method' = "DEEPSEEK"
         /\ Validate(c, s)
    ELSE LET p == parse_query(q)
         IN  /\ sql' = p
             /\ method' = IF Truthy(p) THEN "PARSER" ELSE "NONE"
             /\ Validate(c \o <<"parse_query">>, p)

\* process_query up to its first await
ProcessQuery ==
    /\ pc = "start"
    /\ UNCHANGED <<llmvars, concvars, runvars, llm, raw, args, generated, fetched, executed>>
    /\ IF ~Truthy(raw)
       THEN /\ Return(0, FALSE, MESSAGES.invalid_intent)
            /\ UNCHANGED <<query, sql, method, calls, verdict>>
       ELSE IF ~validate_query_length(raw)
       THEN /\ calls' = <<"validate_query_length">>
            /\ Return(0, FALSE, MESSAGES.too_long)
            /\ UNCHANGED <<query, sql, method, verdict>>
       ELSE LET q == sanitize_input(raw)
                c == <<"validate_query_length", "sanitize_input", "check_forbidden_words">>
            IN  /\ query' = q
                /\ IF ~check_forbidden_words(q)
                   THEN /\ calls' = c
                        /\ Return(0, FALSE, MESSAGES.invalid_intent)
                        /\ UNCHANGED <<sql, method, verdict>>
                   ELSE IF ~validate_intent(q)
                   THEN /\ calls' = c \o <<"validate_intent">>
                        /\ Return(0, FALSE, MESSAGES.invalid_intent)
                        /\ UNCHANGED <<sql, method, verdict>>
                   ELSE IF llm
                   THEN /\ calls' = c \o <<"validate_intent", "generate_sql">>
                        /\ pc' = "generate_sql"
                        /\ UNCHANGED <<sql, method, verdict, returned, answer>>
                   ELSE Translate(c \o <<"validate_intent">>, q, None)

\* the await of self.llm.generate_sql is over
GenerateSqlDone ==
    /\ pc = "generate_sql"
    /\ UNCHANGED <<llmvars, concvars, runvars, llm, raw, query, args, fetched, executed>>
    /\ \E response \in LLM_RESPONSES :
          /\ generated' = generate_sql(response)
          /\ Translate(calls, query, generate_sql(response))

\* "async with self.db_pool.acquire() as conn" is over: with a connection,
\* and conn.fetchval(sql) is called, or with an exception (no pool, no
\* connection)
AcquireDone ==
    /\ pc = "acquire"
    /\ UNCHANGED <<llmvars, concvars, runvars, llm, raw, query, sql, args, method,
                   generated, fetched, verdict>>
    /\ \/ /\ pc' = "fetchval"
          /\ calls' = calls \o <<"fetchval">>
          /\ executed' = executed \o << [sql |-> sql, args |-> args] >>
          /\ UNCHANGED <<returned, answer>>
       \/ /\ Except
          /\ UNCHANGED <<calls, executed>>

\* the await of conn.fetchval(sql) is over
FetchvalDone ==
    /\ pc = "fetchval"
    /\ UNCHANGED <<llmvars, concvars, runvars, llm, raw, query, sql, args, method,
                   generated, calls, verdict, executed>>
    /\ \E out \in FETCH_OUTCOMES :
          /\ fetched' = out
          /\ IF out.outcome = "raise"
             THEN Except
             ELSE Return(ValueOrZero(out.result), TRUE, Str(out.result))

Next == ProcessQuery \/ GenerateSqlDone \/ AcquireDone \/ FetchvalDone

Spec == Init /\ [][Next]_vars

\* ------------------------------------- src/main.py, the older handler

PHRASE_CREATOR ==
    <<"cy_s", "cy_k", "cy_o", "cy_l", "cy_soft", "cy_k", "cy_o", " ", "cy_v",
      "cy_i", "cy_d", "cy_e", "cy_o", " ", "cy_u", " ", "cy_k", "cy_r",
      "cy_e", "cy_a", "cy_t", "cy_o", "cy_r", "cy_a">>

PHRASE_MORE_THAN ==
    <<"cy_n", "cy_a", "cy_b", "cy_r", "cy_a", "cy_l", "cy_o", " ", "cy_b",
      "cy_o", "cy_l", "cy_soft", "cy_sh", "cy_e">>

SQL_BY_CREATOR ==
    <<"S", "E", "L", "E", "C", "T", " ", "C", "O", "U", "N", "T", "(", "*",
      ")", " ", "F", "R", "O", "M", " ", "v", "i", "d", "e", "o", "s", " ",
      "W", "H", "E", "R", "E", " ", "c", "r", "e", "a", "t", "o", "r", "_",
      "i", "d", " ", "=", " ", "$", "1">>

SQL_BY_VIEWS ==
    <<"S", "E", "L", "E", "C", "T", " ", "C", "O", "U", "N", "T", "(", "*",
      ")", " ", "F", "R", "O", "M", " ", "v", "i", "d", "e", "o", "s", " ",
      "W", "H", "E", "R", "E", " ", "v", "i", "e", "w", "s", "_", "c", "o",
      "u", "n", "t", " ", ">", " ", "$", "1">>

MAIN_ERROR ==
    <<"CY_P", "cy_r", "cy_o", "cy_i", "cy_z", "cy_o", "cy_sh", "cy_l",
      "cy_a", " ", "cy_o", "cy_sh", "cy_i", "cy_b", "cy_k", "cy_a", " ",
      "cy_p", "cy_r", "cy_i", " ", "cy_o", "cy_b", "cy_r", "cy_a", "cy_b",
      "cy_o", "cy_t", "cy_k", "cy_e", " ", "cy_z", "cy_a", "cy_p", "cy_r",
      "cy_o", "cy_s", "cy_a", ".", " ", "CY_P", "cy_o", "cy_p", "cy_r",
      "cy_o", "cy_b", "cy_u", "cy_j", "cy_t", "cy_e", " ", "cy_e", "cy_sch",
      "cy_e", " ", "cy_r", "cy_a", "cy_z", ".">>

\* the arguments that go with a statement to conn.fetchval
StrArg(s) == [type |-> "str", str |-> s, int |-> 0]

IntArg(n) == [type |-> "int", str |-> <<>>, int |-> n]

MAIN_FRAG_CREATOR ==
    <<"CY_S", "cy_k", "cy_o", "cy_l", "cy_soft", "cy_k", "cy_o", " ", "cy_v",
      "cy_i", "cy_d", "cy_e", "cy_o", " ", "cy_u", " ", "cy_k", "cy_r",
      "cy_e", "cy_a", "cy_t", "cy_o", "cy_r", "cy_a", " ", "cy_s", " ", "i",
      "d">>

MAIN_FRAG_MORE_THAN ==
    <<"CY_S", "cy_k", "cy_o", "cy_l", "cy_soft", "cy_k", "cy_o", " ", "cy_v",
      "cy_i", "cy_d", "cy_e", "cy_o", " ", "cy_n", "cy_a", "cy_b", "cy_r",
      "cy_a", "cy_l", "cy_o", " ", "cy_b", "cy_o", "cy_l", "cy_soft",
      "cy_sh", "cy_e", " ">>

MAIN_FRAG_VIEWS ==
    <<" ", "cy_p", "cy_r", "cy_o", "cy_s", "cy_m", "cy_o", "cy_t", "cy_r",
      "cy_o", "cy_v">>

MainFrags == << FRAG_PHRASE, MAIN_FRAG_CREATOR, <<" ">>, <<"a", "B", "1">>,
                MAIN_FRAG_MORE_THAN, <<"1", "0", "0">>, MAIN_FRAG_VIEWS >>

RECURSIVE MainTexts(_)
MainTexts(n) ==
    IF n = 0 THEN {<<>>}
    ELSE LET shorter == MainTexts(n - 1)
         IN  shorter \cup {t \o MainFrags[i] : t \in shorter, i \in DOMAIN MainFrags}

MainQueries == MainTexts(MaxFrags) \cup {None}

\* what self.llm.ainvoke(prompt) returns
MAIN_LLM_TEXTS == LLM_CONTENTS \cup {
    <<"CY_Z", "cy_a", "cy_p", "cy_r", "cy_o", "cy_s", ":", "\n", " ", " ",
      "S", "E", "L", "E", "C", "T", " ", "C", "O", "U", "N", "T", "(", "*",
      ")", " ", "F", "R", "O", "M", " ", "v", "i", "d", "e", "o", "s", "\n">>,
    <<"BACKTICK", "BACKTICK", "BACKTICK", "s", "q", "l", "\n", "D", "E", "L",
      "E", "T", "E", " ", "F", "R", "O", "M", " ", "v", "i", "d", "e", "o",
      "s", "\n", "BACKTICK", "BACKTICK", "BACKTICK">>,
    <<"BACKTICK", "BACKTICK", "BACKTICK", "s", "q", "l", " ", "S", "E", "L",
      "E", "C", "T", " ", "1", ";", " ", "D", "R", "O", "P", " ", "T", "A",
      "B", "L", "E", " ", "v", "i", "d", "e", "o", "s", " ", "BACKTICK",
      "BACKTICK", "BACKTICK">> }

\* VideoStatsBot.__init__ of src/main.py, and a message that
\* handle_user_query has just got
MainInit ==
    /\ llm \in BOOLEAN
    /\ raw \in MainQueries
    /\ pc = "start"
    /\ query = raw
    /\ sql = None
    /\ args = <<>>
    /\ method = "NONE"
    /\ generated = None
    /\ fetched = NO_FETCH
    /\ calls = <<>>
    /\ verdict = NoVerdict
    /\ executed = <<>>
    /\ returned = NoReturn
    /\ answer = None
    /\ OneRequest

\* process_natural_language_query returns value: handle_user_query answers
\* str(result)
MainReturn(value) ==
    /\ pc' = "done"
    /\ returned' = [value |-> value, success |-> TRUE, message |-> None]
    /\ answer' = Str(Scalar(value))

\* an exception leaves process_natural_language_query: handle_user_query
\* catches it and answers the fixed text
MainRaise ==
    /\ pc' = "done"
    /\ answer' = MAIN_ERROR
    /\ UNCHANGED returned

\* process_natural_language_query goes for a connection with a statement
\* and its arguments
MainAcquire(s, a) ==
    /\ pc' = "acquire"
    /\ sql' = s
    /\ args' = a
    /\ UNCHANGED <<returned, answer>>

\* process_natural_language_query up to its first await
MainProcessQuery ==
    /\ pc = "start"
    /\ UNCHANGED <<llmvars, concvars, runvars, llm, raw, query, method, generated,
                   fetched, verdict, executed>>
    /\ IF llm
       THEN /\ pc' = "ainvoke"
            /\ calls' = <<"ainvoke">>
            /\ UNCHANGED <<sql, args, returned, answer>>
       ELSE /\ UNCHANGED calls
            /\ IF raw = None
               THEN MainRaise /\ UNCHANGED <<sql, args>>
               ELSE LET query_lower == LowerStr(raw)
                    IN  IF Contains(query_lower, PHRASE_TOTAL_VIDEOS)
                        THEN MainAcquire(SQL_TOTAL_VIDEOS, <<>>)
                        ELSE IF Contains(query_lower, PHRASE_CREATOR)
                        THEN IF CreatorId(raw) # None
                             THEN MainAcquire(SQL_BY_CREATOR, <<StrArg(CreatorId(raw))>>)
                             ELSE MainReturn(0) /\ UNCHANGED <<sql, args>>
                        ELSE IF /\ Contains(query_lower, PHRASE_MORE_THAN)
                                /\ Contains(query_lower, WORD_VIEWS)
                        THEN IF ViewDigits(raw) # None
                             THEN MainAcquire(SQL_BY_VIEWS,
                                              <<IntArg(StrToNat(ViewDigits(raw)))>>)
                             ELSE MainReturn(0) /\ UNCHANGED <<sql, args>>
                        ELSE MainReturn(0) /\ UNCHANGED <<sql, args>>

\* the await of self.llm.ainvoke(prompt) is over: with a text, which
\* SQLQueryOutputParser().parse turns into the statement, or with an
\* exception
MainInvokeDone ==
    /\ pc = "ainvoke"
    /\ UNCHANGED <<llmvars, concvars, runvars, llm, raw, query, method, generated,
                   fetched, verdict, executed>>
    /\ \/ \E llm_response \in MAIN_LLM_TEXTS :
             /\ calls' = calls \o <<"parse">>
             /\ MainAcquire(parse(llm_response), <<>>)
       \/ /\ MainRaise
          /\ UNCHANGED <<sql, args, calls>>

\* "async with self.db_pool.acquire() as conn" is over
MainAcquireDone ==
    /\ pc = "acquire"
    /\ UNCHANGED <<llmvars, concvars, runvars, llm, raw, query, sql, args, method,
                   generated, fetched, verdict>>
    /\ \/ /\ pc' = "fetchval"
          /\ calls' = calls \o <<"fetchval">>
          /\ executed' = executed \o << [sql |-> sql, args |-> args] >>
          /\ UNCHANGED <<returned, answer>>
       \/ /\ MainRaise
          /\ UNCHANGED <<calls, executed>>

\* the await of conn.fetchval is over
MainFetchvalDone ==
    /\ pc = "fetchval"
    /\ UNCHANGED <<llmvars, concvars, runvars, llm, raw, query, sql, args, method,
                   generated, calls, verdict, executed>>
    /\ \E out \in FETCH_OUTCOMES :
          /\ fetched' = out
          /\ IF out.outcome = "raise"
             THEN MainRaise
             ELSE MainReturn(ValueOrZero(out.result))

MainNext == MainProcessQuery \/ MainInvokeDone \/ MainAcquireDone \/ MainFetchvalDone

MainSpec == MainInit /\ [][MainNext]_vars

\* -------------------------------------- QueryParser.parse_query alone

\* an example question for each of the five documented templates: the
\* total-count phrase, and the questions of self.examples in src/bot/bot.py
EXAMPLE_QUESTIONS == <<
    <<"cy_s", "cy_k", "cy_o", "cy_l", "cy_soft", "cy_k", "cy_o", " ", "cy_v",
      "cy_s", "cy_e", "cy_g", "cy_o", " ", "cy_v", "cy_i", "cy_d", "cy_e",
      "cy_o">>,
    <<"CY_S", "cy_k", "cy_o", "cy_l", "cy_soft", "cy_k", "cy_o", " ", "cy_v",
      "cy_i", "cy_d", "cy_e", "cy_o", " ", "cy_u", " ", "cy_k", "cy_r",
      "cy_e", "cy_a", "cy_t", "cy_o", "cy_r", "cy_a", " ", "cy_s", " ", "i",
      "d", " ", "a", "b", "c", "1", "2", "3", " ", "cy_v", "cy_y", "cy_sh",
      "cy_l", "cy_o", " ", "cy_s", " ", "1", " ", "cy_n", "cy_o", "cy_ya",
      "cy_b", "cy_r", "cy_ya", " ", "2", "0", "2", "5", " ", "cy_p", "cy_o",
      " ", "5", " ", "cy_n", "cy_o", "cy_ya", "cy_b", "cy_r", "cy_ya", " ",
      "2", "0", "2", "5", "?">>,
    <<"CY_S", "cy_k", "cy_o", "cy_l", "cy_soft", "cy_k", "cy_o", " ", "cy_v",
      "cy_i", "cy_d", "cy_e", "cy_o", " ", "cy_n", "cy_a", "cy_b", "cy_r",
      "cy_a", "cy_l", "cy_o", " ", "cy_b", "cy_o", "cy_l", "cy_soft",
      "cy_sh", "cy_e", " ", "1", "0", "0", "0", "0", "0", " ", "cy_p",
      "cy_r", "cy_o", "cy_s", "cy_m", "cy_o", "cy_t", "cy_r", "cy_o", "cy_v",
      "?">>,
    <<"CY_N", "cy_a", " ", "cy_s", "cy_k", "cy_o", "cy_l", "cy_soft", "cy_k",
      "cy_o", " ", "cy_p", "cy_r", "cy_o", "cy_s", "cy_m", "cy_o", "cy_t",
      "cy_r", "cy_o", "cy_v", " ", "cy_v", " ", "cy_s", "cy_u", "cy_m",
      "cy_m", "cy_e", " ", "cy_v", "cy_y", "cy_r", "cy_o", "cy_s", "cy_l",
      "cy_i", " ", "cy_v", "cy_s", "cy_e", " ", "cy_v", "cy_i", "cy_d",
      "cy_e", "cy_o", " ", "2", "8", " ", "cy_n", "cy_o", "cy_ya", "cy_b",
      "cy_r", "cy_ya", " ", "2", "0", "2", "5", "?">>,
    <<"CY_S", "cy_k", "cy_o", "cy_l", "cy_soft", "cy_k", "cy_o", " ", "cy_r",
      "cy_a", "cy_z", "cy_n", "cy_y", "cy_h", " ", "cy_v", "cy_i", "cy_d",
      "cy_e", "cy_o", " ", "cy_p", "cy_o", "cy_l", "cy_u", "cy_ch", "cy_a",
      "cy_l", "cy_i", " ", "cy_n", "cy_o", "cy_v", "cy_y", "cy_e", " ",
      "cy_p", "cy_r", "cy_o", "cy_s", "cy_m", "cy_o", "cy_t", "cy_r", "cy_y",
      " ", "2", "7", " ", "cy_n", "cy_o", "cy_ya", "cy_b", "cy_r", "cy_ya",
      " ", "2", "0", "2", "5", "?">> >>

ParserInputs == (Texts(MaxFrags) \ {t \in Texts(MaxFrags) : Len(t) > MAX_QUERY_LENGTH})
                  \cup Range(EXAMPLE_QUESTIONS)

ParserInit ==
    /\ llm = FALSE
    /\ raw \in ParserInputs
    /\ pc = "start"
    /\ query = raw
    /\ sql = None
    /\ args = <<>>
    /\ method = "NONE"
    /\ generated = None
    /\ fetched = NO_FETCH
    /\ calls = <<>>
    /\ verdict = NoVerdict
    /\ executed = <<>>
    /\ returned = NoReturn
    /\ answer = None
    /\ OneRequest

\* sql = self.parser.parse_query(query)
ParseQuery ==
    /\ pc = "start"
    /\ pc' = "done"
    /\ calls' = <<"parse_query">>
    /\ sql' = parse_query(query)
    /\ UNCHANGED <<llmvars, concvars, runvars, llm, raw, query, args, method, generated,
                   fetched, verdict, executed, returned, answer>>

ParserNext == ParseQuery

ParserSpec == ParserInit /\ [][ParserNext]_vars

\* ---------------------------------------------------------------- claims

Called(name) == \E i \in DOMAIN calls : calls[i] = name

Before(first, second) ==
    \E i, j \in DOMAIN calls : i < j /\ calls[i] = first /\ calls[j] = second

Failure(message) == [value |-> 0, success |-> FALSE, message |-> message]

\* the text holds a deny-listed token as a whole word, in any letter case
HasDenyWord(t) == \E k \in 1..Len(FORBIDDEN_WORDS) : ReSearchWord(FORBIDDEN_WORDS[k], t)

\* no allow-list keyword is a substring of the lowercased text
NoKeyword(t) ==
    LET lowered == LowerStr(t)
    IN  \A k \in 1..Len(ALLOWED_KEYWORDS) : ~Contains(lowered, ALLOWED_KEYWORDS[k])

\* the text holds the total-count phrase, in any letter case
HasTotalPhrase(t) ==
    \E p \in 1..Len(t) :
        /\ p + Len(PHRASE_TOTAL_VIDEOS) - 1 <= Len(t)
        /\ \A j \in 1..Len(PHRASE_TOTAL_VIDEOS) : Lower(t[p + j - 1]) = PHRASE_TOTAL_VIDEOS[j]

GATE_CALLS == <<"validate_query_length", "sanitize_input", "check_forbidden_words",
                "validate_intent">>

\* C1: process_query hands a statement to the database only after
\* validate_sql was called on exactly that statement and returned Valid,
\* whichever translator produced it; and once validate_sql has rejected the
\* candidate the request is over, a failure, with nothing executed.
C1_ExecutedOnlyAfterValid ==
    /\ \A i \in DOMAIN executed :
          /\ verdict.valid
          /\ verdict.sql = executed[i].sql
          /\ Before("validate_sql", "fetchval")
    /\ Called("fetchval") => executed # <<>>
    /\ (Called("validate_sql") /\ ~verdict.valid) =>
          /\ pc = "done"
          /\ ~returned.success
          /\ executed = <<>>
          /\ ~Called("fetchval")

\* a generated statement with DROP in it got through generate_sql, was
\* rejected by validate_sql, and the request failed with nothing executed
C1_Witness ==
    /\ pc = "done"
    /\ method = "DEEPSEEK"
    /\ Contains(sql, <<"D", "R", "O", "P">>)
    /\ Called("validate_sql")
    /\ ~verdict.valid
    /\ returned = Failure(MESSAGES.invalid_sql)

\* C2: in every handler, a statement that comes from the generative backend
\* is executed only when the question passed the length check and the
\* deny-list filter and the statement passed validate_sql.  Stated of
\* process_natural_language_query of src/main.py.
C2_OnlyVettedSelect ==
    (llm /\ executed # <<>>) =>
        /\ raw # None
        /\ Len(raw) <= MAX_QUERY_LENGTH
        /\ ~HasDenyWord(raw)
        /\ \A i \in DOMAIN executed : validate_sql(executed[i].sql)[1]

\* text t is one statement: it begins with SELECT and only whitespace
\* follows a ';'
SingleSelect(t) ==
    /\ ReMatchSelect(Strip(UpperStr(t)))
    /\ \A p \in 1..Len(t) : t[p] = ";" => \A j \in (p + 1)..Len(t) : IsSpace(t[j])

\* C3: every statement that validate_sql accepts and process_query executes
\* is a single statement: it begins with SELECT and no statement follows
\* a ';' in it.
C3_SingleStatementOnly ==
    /\ (Called("validate_sql") /\ verdict.valid) => SingleSelect(verdict.sql)
    /\ \A i \in DOMAIN executed : SingleSelect(executed[i].sql)

\* C4: a raw text of more than 500 characters ends with the too_long
\* failure, and the length check on the raw text is the only stage that
\* ever runs for it.
C4_TooLongBeforeAnyStage ==
    (raw # None /\ Len(raw) > MAX_QUERY_LENGTH) =>
        /\ pc \in {"start", "done"}
        /\ pc = "start" => calls = <<>>
        /\ pc = "done" => /\ calls = <<"validate_query_length">>
                          /\ returned = Failure(MESSAGES.too_long)
                          /\ query = raw
                          /\ executed = <<>>

\* a raw text of 501 characters that sanitation would have shortened
C4_Witness ==
    /\ pc = "done"
    /\ raw # None
    /\ Len(raw) = MAX_QUERY_LENGTH + 1
    /\ Len(sanitize_input(raw)) < MAX_QUERY_LENGTH
    /\ returned = Failure(MESSAGES.too_long)

\* the request is past its first step, for a text of at most 500 characters
C5_Scanned ==
    /\ pc # "start"
    /\ Truthy(raw)
    /\ Len(raw) <= MAX_QUERY_LENGTH

\* C5 as claimed: a text with a deny-listed whole word ends, before the
\* intent gate, with a failure of a kind of its own: its message is the
\* message of no other failure (the intent gate's, the length check's, the
\* translation's, the execution's).
C5_ForbiddenContentOwnKind ==
    (C5_Scanned /\ HasDenyWord(raw)) =>
        /\ pc = "done"
        /\ ~returned.success
        /\ calls = SubSeq(GATE_CALLS, 1, 3)
        /\ returned.message \notin {MESSAGES.invalid_intent, MESSAGES.too_long,
                                   MESSAGES.invalid_sql, MESSAGES.error}

\* C5, amended: a text of at most 500 characters with a deny-listed whole
\* word, in any letter case, ends with the failure whose message is
\* MESSAGES['invalid_intent'], the one the intent gate gives too, before
\* the intent gate or a translator runs; a text whose deny-listed tokens
\* are all inside longer words goes on to the intent gate.
C5_ForbiddenWordsFailAsIntent ==
    C5_Scanned =>
        IF HasDenyWord(raw)
        THEN /\ pc = "done"
             /\ returned = Failure(MESSAGES.invalid_intent)
             /\ calls = SubSeq(GATE_CALLS, 1, 3)
             /\ executed = <<>>
        ELSE StartsWith(calls, GATE_CALLS)

\* a mixed-case deny-listed word beside a domain keyword
C5_Witness ==
    /\ C5_Scanned
    /\ HasDenyWord(raw)
    /\ Contains(raw, FRAG_DROP)
    /\ ~NoKeyword(query)
    /\ returned = Failure(MESSAGES.invalid_intent)

\* C6: a sanitized text with no allow-list keyword as a substring of its
\* lowercased form ends with the intent failure and no translator, validator
\* or execution call; and a translator is called only after the length
\* check, the deny-list scan and the intent gate, in that order, on a text
\* that passes all three.
C6_IntentGateBeforeTranslators ==
    /\ (Called("sanitize_input") /\ NoKeyword(query)) =>
          /\ pc = "done"
          /\ returned = Failure(MESSAGES.invalid_intent)
          /\ \A i \in DOMAIN calls :
                calls[i] \notin {"generate_sql", "parse_query", "validate_sql", "fetchval"}
    /\ \A i \in DOMAIN calls :
          calls[i] \in {"generate_sql", "parse_query"} =>
              /\ i > 4
              /\ StartsWith(calls, GATE_CALLS)
              /\ Len(raw) <= MAX_QUERY_LENGTH
              /\ ~HasDenyWord(query)
              /\ ~NoKeyword(query)

\* small talk that holds no deny-listed word stopped at the intent gate
C6_Witness ==
    /\ pc = "done"
    /\ query = FRAG_HELLO
    /\ calls = GATE_CALLS
    /\ returned = Failure(MESSAGES.invalid_intent)

\* the request is past the gates and past the translation stage
TranslationOver ==
    /\ pc \in {"acquire", "fetchval", "done"}
    /\ StartsWith(calls, GATE_CALLS)
    /\ returned # Failure(MESSAGES.invalid_intent)

\* C7: the generative translator is asked first when the capability is
\* present, and not at all when it is absent; its statement, when it has
\* one, is the one used and the parser is not asked; the parser is asked
\* exactly when the capability is absent or had no result; and when
\* neither has a statement the request fails with invalid_sql and neither
\* validate_sql nor the database is called.
C7_GenerativeFirstOneProducer ==
    /\ Called("generate_sql") => llm
    /\ Called("parse_query") /\ llm => Before("generate_sql", "parse_query")
    /\ Truthy(generated) => llm
    /\ TranslationOver =>
          /\ Called("generate_sql") <=> llm
          /\ Called("parse_query") <=> (~llm \/ ~Truthy(generated))
          /\ Truthy(generated) => sql = generated /\ method = "DEEPSEEK"
          /\ ~Truthy(generated) => sql = parse_query(query)
          /\ method = "PARSER" <=> (~Truthy(generated) /\ Truthy(sql))
          /\ ~Truthy(sql) =>
                /\ pc = "done"
                /\ method = "NONE"
                /\ returned = Failure(MESSAGES.invalid_sql)
                /\ ~Called("validate_sql")
                /\ ~Called("fetchval")

\* the capability is present, had no result, and the parser's statement
\* went on to the validator
C7_Witness ==
    /\ llm
    /\ TranslationOver
    /\ generated = None
    /\ method = "PARSER"
    /\ calls = GATE_CALLS \o <<"generate_sql", "parse_query", "validate_sql">>

\* the SQL the five templates are documented to give for EXAMPLE_QUESTIONS
DOCUMENTED_SQL == <<
    <<"S", "E", "L", "E", "C", "T", " ", "C", "O", "U", "N", "T", "(", "*",
      ")", " ", "F", "R", "O", "M", " ", "v", "i", "d", "e", "o", "s">>,
    <<"S", "E", "L", "E", "C", "T", " ", "C", "O", "U", "N", "T", "(", "*",
      ")", " ", "F", "R", "O", "M", " ", "v", "i", "d", "e", "o", "s", " ",
      "W", "H", "E", "R", "E", " ", "c", "r", "e", "a", "t", "o", "r", "_",
      "i", "d", " ", "=", " ", "'", "a", "b", "c", "1", "2", "3", "'", " ",
      "A", "N", "D", " ", "D", "A", "T", "E", "(", "v", "i", "d", "e", "o",
      "_", "c", "r", "e", "a", "t", "e", "d", "_", "a", "t", ")", " ", "B",
      "E", "T", "W", "E", "E", "N", " ", "'", "2", "0", "2", "5", "-", "1",
      "1", "-", "0", "1", "'", " ", "A", "N", "D", " ", "'", "2", "0", "2",
      "5", "-", "1", "1", "-", "0", "5", "'">>,
    <<"S", "E", "L", "E", "C", "T", " ", "C", "O", "U", "N", "T", "(", "*",
      ")", " ", "F", "R", "O", "M", " ", "v", "i", "d", "e", "o", "s", " ",
      "W", "H", "E", "R", "E", " ", "v", "i", "e", "w", "s", "_", "c", "o",
      "u", "n", "t", " ", ">", " ", "1", "0", "0", "0", "0", "0">>,
    <<"S", "E", "L", "E", "C", "T", " ", "S", "U", "M", "(", "d", "e", "l",
      "t", "a", "_", "v", "i", "e", "w", "s", "_", "c", "o", "u", "n", "t",
      ")", " ", "F", "R", "O", "M", " ", "v", "i", "d", "e", "o", "_", "s",
      "n", "a", "p", "s", "h", "o", "t", "s", " ", "W", "H", "E", "R", "E",
      " ", "D", "A", "T", "E", "(", "c", "r", "e", "a", "t", "e", "d", "_",
      "a", "t", ")", " ", "=", " ", "'", "2", "0", "2", "5", "-", "1", "1",
      "-", "2", "8", "'">>,
    <<"S", "E", "L", "E", "C", "T", " ", "C", "O", "U", "N", "T", "(", "D",
      "I", "S", "T", "I", "N", "C", "T", " ", "v", "i", "d", "e", "o", "_",
      "i", "d", ")", " ", "F", "R", "O", "M", " ", "v", "i", "d", "e", "o",
      "_", "s", "n", "a", "p", "s", "h", "o", "t", "s", " ", "W", "H", "E",
      "R", "E", " ", "D", "A", "T", "E", "(", "c", "r", "e", "a", "t", "e",
      "d", "_", "a", "t", ")", " ", "=", " ", "'", "2", "0", "2", "5", "-",
      "1", "1", "-", "2", "7", "'", " ", "A", "N", "D", " ", "d", "e", "l",
      "t", "a", "_", "v", "i", "e", "w", "s", "_", "c", "o", "u", "n", "t",
      " ", ">", " ", "0">> >>

\* C8 as claimed: parse_query maps the example question of each of the
\* five templates to its documented SQL, and gives None for a text that
\* matches no template.
C8_FiveTemplates ==
    (pc = "done" /\ Called("parse_query")) =>
        /\ \A k \in DOMAIN EXAMPLE_QUESTIONS :
              query = EXAMPLE_QUESTIONS[k] => sql = DOCUMENTED_SQL[k]
        /\ (query \notin Range(EXAMPLE_QUESTIONS) /\ ~HasTotalPhrase(query)) => sql = None

\* C8, amended: parse_query knows one template.  A text that holds the
\* total-count phrase, in any letter case, gives
\* 'SELECT COUNT(*) FROM videos'; every other text gives None, the example
\* questions of the other four templates among them.
C8_TotalCountTemplateOnly ==
    (pc = "done" /\ Called("parse_query")) =>
        /\ HasTotalPhrase(query) => sql = DOCUMENTED_SQL[1]
        /\ ~HasTotalPhrase(query) => sql = None
        /\ query = EXAMPLE_QUESTIONS[1] => sql = DOCUMENTED_SQL[1]
        /\ \A k \in 2..5 : query = EXAMPLE_QUESTIONS[k] => sql = None

\* the phrase inside a longer question gave the statement
C8_Witness ==
    /\ pc = "done"
    /\ Called("parse_query")
    /\ query = FRAG_PHRASE \o FRAG_REST
    /\ sql = DOCUMENTED_SQL[1]

\* the capability is absent and the text, of at most 500 characters, holds
\* the total-count phrase and no deny-listed whole word
C9_Case ==
    /\ ~llm
    /\ raw # None
    /\ Len(raw) <= MAX_QUERY_LENGTH
    /\ HasTotalPhrase(raw)
    /\ ~HasDenyWord(raw)

\* C9: such a question passes every gate, is translated by the parser and
\* not by the generative translator to exactly
\* 'SELECT COUNT(*) FROM videos', which validate_sql accepts and which is the
\* statement executed; when the database returns a scalar the result is a
\* success with that number (0 for NULL), and the only failure left is the
\* database's.
C9_TotalCountEndToEnd ==
    (C9_Case /\ pc # "start") =>
        /\ StartsWith(calls, GATE_CALLS \o <<"parse_query", "validate_sql">>)
        /\ ~Called("generate_sql")
        /\ method = "PARSER"
        /\ sql = DOCUMENTED_SQL[1]
        /\ verdict = [sql |-> DOCUMENTED_SQL[1], valid |-> TRUE, reason |-> REASON_OK]
        /\ \A i \in DOMAIN executed : executed[i] = [sql |-> DOCUMENTED_SQL[1], args |-> <<>>]
        /\ pc = "fetchval" => Len(executed) = 1
        /\ pc = "done" =>
              /\ fetched.outcome = "return" =>
                    /\ Len(executed) = 1
                    /\ returned.success
                    /\ returned.value = ValueOrZero(fetched.result)
              /\ fetched.outcome # "return" => returned = Failure(MESSAGES.error)

\* the first example question of the welcome text, answered with a number
C9_Witness ==
    /\ C9_Case
    /\ raw = FRAG_PHRASE \o FRAG_REST
    /\ pc = "done"
    /\ returned.success
    /\ returned.value = 7

\* C10: on success process_query returns (value, true, message) with a NULL
\* scalar given as 0 and message the string form of the value returned: a
\* NULL scalar gives value 0 with message '0', and for every scalar the
\* message is the string of the value component.
C10_MessageIsStringOfValue ==
    (pc = "done" /\ fetched.outcome = "return") =>
        /\ returned.success
        /\ returned.value = ValueOrZero(fetched.result)
        /\ returned.message = Str(Scalar(returned.value))
        /\ fetched.result.isnull =>
              returned.value = 0 /\ returned.message = <<"0">>

\* the fixed texts process_query gives with a failure
FAILURE_MESSAGES == {MESSAGES.invalid_intent, MESSAGES.too_long,
                     MESSAGES.invalid_sql, MESSAGES.error}

\* C11: no exception leaves process_query, whatever the text (None and ''
\* too), the generative call and the database calls come to; a request that
\* is over has returned a triple, and a failure is (0, False, m) with m one
\* of the fixed texts of MESSAGES, which is neither the statement nor the
\* text of an exception.
C11_NoFaultFixedFailures ==
    /\ pc # "raised"
    /\ pc = "done" =>
          /\ returned.success \in BOOLEAN
          /\ returned.message # None
          /\ answer = returned.message
          /\ ~returned.success =>
                /\ returned.value = 0
                /\ returned.message \in FAILURE_MESSAGES
                /\ Truthy(sql) => ~Contains(returned.message, sql)

\* the generative call raised, the parser gave the statement, and the
\* database call raised: the request ended with MESSAGES['error']
C11_Witness ==
    /\ pc = "done"
    /\ generated = None
    /\ Called("generate_sql")
    /\ method = "PARSER"
    /\ fetched = FETCH_RAISE
    /\ returned = Failure(MESSAGES.error)

\* ------------------------ process_query with services that may not answer

\* "async with self.db_pool.acquire() as conn" with no connection ever
\* free: acquire() is called with no timeout, so the request stays at the
\* await
AcquireNever ==
    /\ pc = "acquire"
    /\ pc' = "suspended"
    /\ UNCHANGED <<llmvars, concvars, runvars, llm, raw, query, sql, args, method,
                   generated, fetched, calls, verdict, executed, returned, answer>>

\* "await conn.fetchval(sql)" with a database that never answers: the pool
\* is created with no command_timeout and fetchval is called with no
\* timeout, so the request stays at the await
FetchvalNever ==
    /\ pc = "fetchval"
    /\ pc' = "suspended"
    /\ UNCHANGED <<llmvars, concvars, runvars, llm, raw, query, sql, args, method,
                   generated, fetched, calls, verdict, executed, returned, answer>>

LiveNext == Next \/ AcquireNever \/ FetchvalNever

\* the event loop runs a coroutine that can run; session.post is under
\* aiohttp.ClientTimeout(total=API_TIMEOUT), so the await of generate_sql
\* ends, with HttpRaise when the service has not answered; each database
\* await either ends or never does
LiveSpec ==
    /\ Init
    /\ [][LiveNext]_vars
    /\ WF_vars(ProcessQuery)
    /\ WF_vars(GenerateSqlDone)
    /\ WF_vars(AcquireDone \/ AcquireNever)
    /\ WF_vars(FetchvalDone \/ FetchvalNever)

\* C12: every request that process_query took on ends: each of the two
\* external calls is under a timeout, so a service that never answers gives
\* "no result" and a database that never answers gives the failure
\* MESSAGES['error']; no request is left at an await that never ends.
C12_NoRequestLeftSuspended == pc # "suspended"

\* ------------------------------- process_query calls in flight together

MaxRequests == 2

Requests == 1..MaxRequests

\* message.text of the messages: no text, a question on the domain, a text
\* off the domain
CONC_TEXTS == {None, FRAG_PHRASE, FRAG_HELLO}

\* answers of the generative service: one validate_sql accepts, one it
\* rejects
CONC_CONTENTS == {
    <<"S", "E", "L", "E", "C", "T", " ", "c", "r", "e", "a", "t", "e", "d",
      "_", "a", "t", " ", "F", "R", "O", "M", " ", "v", "i", "d", "e", "o",
      "s">>,
    <<"S", "E", "L", "E", "C", "T", " ", "1", ";", " ", "D", "R", "O", "P",
      " ", "T", "A", "B", "L", "E", " ", "v", "i", "d", "e", "o", "s">> }

CONC_RESPONSES == {HttpRaise} \cup {HttpContent(c) : c \in CONC_CONTENTS}

CONC_FETCHES == {FETCH_RAISE, FetchReturns(Null), FetchReturns(Scalar(7))}

\* the frame of a process_query call at its entry: the parameter query and
\* the locals, with what the awaits of this call came to
NewFrame(text) ==
    [pc |-> "start", query |-> text, sql |-> None, method |-> "NONE",
     response |-> NO_RESPONSE, acquired |-> "none", fetched |-> NO_FETCH,
     returned |-> NoReturn]

\* a return statement of process_query
FrameReturn(f, value, success, message) ==
    [f EXCEPT !.pc = "done",
              !.returned = [value |-> value, success |-> success, message |-> message]]

\* process_query from "if not sql" on
FrameValidate(f) ==
    IF ~Truthy(f.sql)
    THEN FrameReturn(f, 0, FALSE, MESSAGES.invalid_sql)
    ELSE IF ~validate_sql(f.sql)[1]
    THEN FrameReturn(f, 0, FALSE, MESSAGES.invalid_sql)
    ELSE [f EXCEPT !.pc = "acquire"]

\* process_query once the generative attempt (s, None when there was none)
\* is over
FrameTranslate(f, s) ==
    IF Truthy(s)
    THEN FrameValidate([f EXCEPT !.sql = s, !.method = "DEEPSEEK"])
    ELSE LET p == parse_query(f.query)
         IN  FrameValidate([f EXCEPT !.sql = p,
                                     !.method = IF Truthy(p) THEN "PARSER" ELSE "NONE"])

\* process_query up to its first await, with self.llm set or not
FrameProcessQuery(f, has_llm) ==
    IF ~Truthy(f.query)
    THEN FrameReturn(f, 0, FALSE, MESSAGES.invalid_intent)
    ELSE IF ~validate_query_length(f.query)
    THEN FrameReturn(f, 0, FALSE, MESSAGES.too_long)
    ELSE LET g == [f EXCEPT !.query = sanitize_input(f.query)]
         IN  IF ~check_forbidden_words(g.query)
             THEN FrameReturn(g, 0, FALSE, MESSAGES.invalid_intent)
             ELSE IF ~validate_intent(g.query)
             THEN FrameReturn(g, 0, FALSE, MESSAGES.invalid_intent)
             ELSE IF has_llm
             THEN [g EXCEPT !.pc = "generate_sql"]
             ELSE FrameTranslate(g, None)

\* the await of self.llm.generate_sql is over
FrameGenerateSqlDone(f, response) ==
    FrameTranslate([f EXCEPT !.response = response], generate_sql(response))

\* "async with self.db_pool.acquire() as conn" is over, with a connection
\* or with an exception
FrameAcquireDone(f, connected) ==
    IF connected
    THEN [f EXCEPT !.pc = "fetchval", !.acquired = "conn"]
    ELSE FrameReturn([f EXCEPT !.acquired = "raise"], 0, FALSE, MESSAGES.error)

\* the await of conn.fetchval(sql) is over
FrameFetchvalDone(f, out) ==
    LET g == [f EXCEPT !.fetched = out]
    IN  IF out.outcome = "raise"
        THEN FrameReturn(g, 0, FALSE, MESSAGES.error)
        ELSE FrameReturn(g, ValueOrZero(out.result), TRUE, Str(out.result))

\* the frames of all the calls are one and the same, as they are when the
\* locals are kept on the bot
FrameOfShared(r) == requests[1].frame

\* the frame a step of request r works on: each call of process_query has
\* its own
FrameOf(r) == requests[r].frame

\* the bot, and messages that handle_message has just got, each with its
\* process_query call
ConcInit ==
    /\ llm \in BOOLEAN
    /\ requests \in [Requests -> {[text |-> t, frame |-> NewFrame(t)] : t \in CONC_TEXTS}]
    /\ raw = None
    /\ pc = "serving"
    /\ query = None
    /\ sql = None
    /\ args = <<>>
    /\ method = "NONE"
    /\ generated = None
    /\ fetched = NO_FETCH
    /\ calls = <<>>
    /\ verdict = NoVerdict
    /\ executed = <<>>
    /\ returned = NoReturn
    /\ answer = None
    /\ posted = NO_RESPONSE
    /\ run_i = 0
    /\ checked = <<>>
    /\ handlers = FALSE
    /\ polling = FALSE

ConcProcessQuery ==
    /\ \E r \in Requests :
          /\ FrameOf(r).pc = "start"
          /\ requests' = [requests EXCEPT ![r].frame = FrameProcessQuery(FrameOf(r), llm)]
    /\ UNCHANGED <<llmvars, runvars, llm, raw, pc, query, sql, args, method, generated,
                   fetched, calls, verdict, executed, returned, answer>>

ConcGenerateSqlDone ==
    /\ \E r \in Requests, response \in CONC_RESPONSES :
          /\ FrameOf(r).pc = "generate_sql"
          /\ requests' = [requests EXCEPT
                             ![r].frame = FrameGenerateSqlDone(FrameOf(r), response)]
    /\ UNCHANGED <<llmvars, runvars, llm, raw, pc, query, sql, args, method, generated,
                   fetched, calls, verdict, executed, returned, answer>>

ConcAcquireDone ==
    /\ \E r \in Requests, connected \in BOOLEAN :
          /\ FrameOf(r).pc = "acquire"
          /\ requests' = [requests EXCEPT
                             ![r].frame = FrameAcquireDone(FrameOf(r), connected)]
    /\ UNCHANGED <<llmvars, runvars, llm, raw, pc, query, sql, args, method, generated,
                   fetched, calls, verdict, executed, returned, answer>>

ConcFetchvalDone ==
    /\ \E r \in Requests, out \in CONC_FETCHES :
          /\ FrameOf(r).pc = "fetchval"
          /\ requests' = [requests EXCEPT
                             ![r].frame = FrameFetchvalDone(FrameOf(r), out)]
    /\ UNCHANGED <<llmvars, runvars, llm, raw, pc, query, sql, args, method, generated,
                   fetched, calls, verdict, executed, returned, answer>>

ConcNext == ConcProcessQuery \/ ConcGenerateSqlDone \/ ConcAcquireDone \/ ConcFetchvalDone

ConcSpec == ConcInit /\ [][ConcNext]_vars

\* what process_query returns for a text when it runs with no other call in
\* flight and its awaits come to response, acquired and out
Alone(has_llm, text, response, acquired, out) ==
    LET a == FrameProcessQuery(NewFrame(text), has_llm)
        b == IF a.pc = "generate_sql" THEN FrameGenerateSqlDone(a, response) ELSE a
        c == IF b.pc = "acquire" THEN FrameAcquireDone(b, acquired = "conn") ELSE b
        d == IF c.pc = "fetchval" THEN FrameFetchvalDone(c, out) ELSE c
    IN  d.returned

\* the result of a request that is over is the result of its own text and
\* of what its own awaits came to
C13_OwnResult ==
    \A r \in Requests :
        requests[r].frame.pc = "done" =>
            requests[r].frame.returned =
                Alone(llm, requests[r].text, requests[r].frame.response,
                      requests[r].frame.acquired, requests[r].frame.fetched)

\* a step is the step of one request: it leaves the text of every message,
\* the frame of every other request and the bot as they are
C13_OwnFrame ==
    /\ llm' = llm
    /\ \E r \in Requests :
          \A o \in Requests :
              /\ requests'[o].text = requests[o].text
              /\ o # r => requests'[o].frame = requests[o].frame

\* C13: process_query calls in flight together on one bot are independent,
\* however their steps interleave at the awaits: the result of each is that
\* of its own text and its own outcomes of the generative and the database
\* call, no step of one request changes what another reads, and a request
\* that fails leaves the results of the others as they would be alone.
C13_RequestsIndependent == [](C13_OwnResult) /\ [][C13_OwnFrame]_vars

\* two requests with the same question and the same answer of the
\* generative service: the database call of the first raised, the second
\* got its number
C13_Witness ==
    /\ llm
    /\ requests[1].text = requests[2].text
    /\ requests[1].frame.response = requests[2].frame.response
    /\ requests[1].frame.pc = "done"
    /\ requests[2].frame.pc = "done"
    /\ requests[1].frame.fetched = FETCH_RAISE
    /\ requests[1].frame.returned = Failure(MESSAGES.error)
    /\ requests[2].frame.returned.success
    /\ requests[2].frame.returned.value = 7

\* ------------------------------------ QueryValidator.validate_sql alone

\* pieces of the argument of validate_sql
SqlFrags == << <<" ">>, <<"S", "E", "L", "E", "C", "T">>,
               <<" ", "s", "e", "l", "e", "c", "t", " ", "1">>, <<"E", "D">>,
               <<"d", "r", "o", "p">>, <<" ", "K", "e", "y", " ">>, <<";">>,
               <<";", ";", "-", "-">>, <<"/", "*">> >>

RECURSIVE SqlTexts(_)
SqlTexts(n) ==
    IF n = 0 THEN {<<>>}
    ELSE LET shorter == SqlTexts(n - 1)
         IN  shorter \cup {t \o SqlFrags[k] : t \in shorter, k \in DOMAIN SqlFrags}

SqlInit ==
    /\ sql \in SqlTexts(MaxFrags)
    /\ llm = FALSE
    /\ raw = None
    /\ pc = "start"
    /\ query = None
    /\ args = <<>>
    /\ method = "NONE"
    /\ generated = None
    /\ fetched = NO_FETCH
    /\ calls = <<>>
    /\ verdict = NoVerdict
    /\ executed = <<>>
    /\ returned = NoReturn
    /\ answer = None
    /\ OneRequest

\* sql_valid, sql_msg = validator.validate_sql(sql)
ValidateSql ==
    /\ pc = "start"
    /\ pc' = "done"
    /\ calls' = <<"validate_sql">>
    /\ verdict' = [sql |-> sql, valid |-> validate_sql(sql)[1],
                   reason |-> validate_sql(sql)[2]]
    /\ UNCHANGED <<llmvars, concvars, runvars, llm, raw, query, sql, args, method, generated,
                   fetched, executed, returned, answer>>

SqlNext == ValidateSql

SqlSpec == SqlInit /\ [][SqlNext]_vars

\* the text, leading whitespace apart, begins with SELECT in any letter case
BeginsWithSelect(t) == StartsWith(UpperStr(Strip(t)), <<"S", "E", "L", "E", "C", "T">>)

\* the same, with SELECT a whole word: no letter, digit or underscore after it
BeginsWithSelectWord(t) ==
    /\ BeginsWithSelect(t)
    /\ Len(Strip(t)) > 6 => ~IsWordChar(Strip(t)[7])

HasComment(t) == Contains(t, <<"-", "-">>) \/ Contains(t, <<"/", "*">>)

\* the first of the five checks the text fails, 0 when it passes them all;
\* begins is what check (2) asks
FirstFailing(t, begins) ==
    IF t = <<>> THEN 1
    ELSE IF ~begins THEN 2
    ELSE IF HasDenyWord(t) THEN 3
    ELSE IF Count(t, ";") > 1 THEN 4
    ELSE IF HasComment(t) THEN 5
    ELSE 0

\* the checks a reason is the reason of (0: the reason of Valid)
ReasonOf(reason) ==
    {n \in 0..5 :
        \/ n = 0 /\ reason = REASON_OK
        \/ n = 1 /\ reason = REASON_EMPTY
        \/ n = 2 /\ reason = REASON_NOT_SELECT
        \/ n = 3 /\ \E k \in 1..Len(FORBIDDEN_WORDS) : reason = REASON_FORBIDDEN(FORBIDDEN_WORDS[k])
        \/ n = 4 /\ reason = REASON_MULTIPLE
        \/ n = 5 /\ reason = REASON_COMMENTS}

\* C14 as claimed: validate_sql runs (1) non-empty, (2) begins with SELECT
\* in any letter case after leading whitespace, (3) no deny-listed whole
\* word, (4) at most one ';', (5) no '--' and no '/*', in this order; it
\* stops at the first check that fails, with the reason of that check and
\* of no other, and it returns Valid exactly when all five pass.
C14_FiveChecksInOrder ==
    pc = "done" =>
        /\ verdict.valid <=> FirstFailing(verdict.sql, BeginsWithSelect(verdict.sql)) = 0
        /\ ReasonOf(verdict.reason) = {FirstFailing(verdict.sql, BeginsWithSelect(verdict.sql))}

\* C14, amended: the same five checks in the same order with the same
\* reasons, where check (2) asks for SELECT as a whole word: a text that
\* begins with SELECT followed by a letter, a digit or an underscore
\* (SELECTED) is rejected by check (2).
C14_FiveChecksSelectWord ==
    pc = "done" =>
        /\ verdict.valid <=> FirstFailing(verdict.sql, BeginsWithSelectWord(verdict.sql)) = 0
        /\ ReasonOf(verdict.reason) = {FirstFailing(verdict.sql, BeginsWithSelectWord(verdict.sql))}

\* a statement with a deny-listed word, two ';' and a comment is rejected
\* for the deny-listed word, the first of the three checks it fails
C14_Witness ==
    /\ pc = "done"
    /\ BeginsWithSelectWord(verdict.sql)
    /\ HasDenyWord(verdict.sql)
    /\ Count(verdict.sql, ";") > 1
    /\ HasComment(verdict.sql)
    /\ ~verdict.valid
    /\ ReasonOf(verdict.reason) = {3}

\* ------------------------------------- DeepSeekLLM.generate_sql alone

LLM_FRAG_TAGGED ==
    <<"BACKTICK", "BACKTICK", "BACKTICK", "s", "q", "l", "\n">>

LLM_FRAG_PROSE ==
    <<"CY_V", "cy_o", "cy_t", " ", "cy_z", "cy_a", "cy_p", "cy_r", "cy_o",
      "cy_s", ":", " ">>

LLM_FRAG_SELECT ==
    <<"S", "E", "L", "E", "C", "T", " ", "1">>

LLM_FRAG_LOWER ==
    <<" ", "s", "e", "l", "e", "c", "t", " ", "2", ";">>

LLM_FRAG_DROP ==
    <<"D", "R", "O", "P", " ", "T", "A", "B", "L", "E", " ", "v", "i", "d",
      "e", "o", "s">>

\* pieces of choices[0].message.content
LlmFrags == << <<"BACKTICK">>, FENCE, LLM_FRAG_TAGGED, <<"S", "Q">>, <<"\n">>,
               LLM_FRAG_PROSE, LLM_FRAG_SELECT, LLM_FRAG_LOWER, LLM_FRAG_DROP >>

RECURSIVE LlmTexts(_)
LlmTexts(n) ==
    IF n = 0 THEN {<<>>}
    ELSE LET shorter == LlmTexts(n - 1)
         IN  shorter \cup {t \o LlmFrags[k] : t \in shorter, k \in DOMAIN LlmFrags}

\* what the POST comes to: the timeout or another exception, a status that
\* is not 200, a body of another shape, a content
LlmResponses == {HttpRaise, HttpStatus(500), HttpStatus(429), HttpMalformed}
                  \cup {HttpContent(c) : c \in LlmTexts(MaxFrags)}

LlmInit ==
    /\ posted \in LlmResponses
    /\ llm = TRUE
    /\ raw = None
    /\ pc = "generate_sql"
    /\ query = None
    /\ sql = None
    /\ args = <<>>
    /\ method = "NONE"
    /\ generated = None
    /\ fetched = NO_FETCH
    /\ calls = <<>>
    /\ verdict = NoVerdict
    /\ executed = <<>>
    /\ returned = NoReturn
    /\ answer = None
    /\ requests = <<>>
    /\ run_i = 0
    /\ checked = <<>>
    /\ handlers = FALSE
    /\ polling = FALSE

\* sql = await self.llm.generate_sql(query, self.schema, self.examples)
GenerateSql ==
    /\ pc = "generate_sql"
    /\ pc' = "done"
    /\ calls' = <<"generate_sql">>
    /\ generated' = generate_sql(posted)
    /\ UNCHANGED <<llmvars, concvars, runvars, llm, raw, query, sql, args, method,
                   fetched, verdict, executed, returned, answer>>

LlmNext == GenerateSql

LlmSpec == LlmInit /\ [][LlmNext]_vars

\* C15: generate_sql does not raise; it returns None ("no result") or a
\* string that is not empty, begins with SELECT in any letter case and
\* holds no code fence; and it returns None for a timeout or another
\* exception, a status that is not 200, a body of another shape, an empty
\* answer, and an answer with no fence in it that does not begin with
\* SELECT (prose, another statement).
C15_SelectOrNoResult ==
    /\ pc \in {"generate_sql", "done"}
    /\ pc = "done" =>
          /\ \/ generated = None
             \/ /\ generated # <<>>
                /\ StartsWith(UpperStr(generated), <<"S", "E", "L", "E", "C", "T">>)
                /\ ~Contains(generated, FENCE)
          /\ (posted.outcome = "raise" \/ posted.status # 200 \/ ~posted.wellformed)
                => generated = None
          /\ (posted.wellformed /\ Strip(posted.content) = <<>>) => generated = None
          /\ (/\ posted.wellformed
              /\ ~Contains(posted.content, <<"BACKTICK">>)
              /\ ~BeginsWithSelect(posted.content)) => generated = None

\* an answer in a tagged code fence comes back as the bare statement
C15_Witness ==
    /\ pc = "done"
    /\ posted = HttpContent(LLM_FRAG_TAGGED \o LLM_FRAG_SELECT \o FENCE)
    /\ generated = LLM_FRAG_SELECT

\* ------------------------------------------ VideoStatsBot.run, bot.py

\* range(30)
DB_CHECKS == 30

\* bot.run() has been called
RunInit ==
    /\ pc = "connect_to_db"
    /\ run_i = 0
    /\ checked = <<>>
    /\ handlers = FALSE
    /\ polling = FALSE
    /\ llm \in BOOLEAN
    /\ raw = None
    /\ query = None
    /\ sql = None
    /\ args = <<>>
    /\ method = "NONE"
    /\ generated = None
    /\ fetched = NO_FETCH
    /\ calls = <<>>
    /\ verdict = NoVerdict
    /\ executed = <<>>
    /\ returned = NoReturn
    /\ answer = None
    /\ posted = NO_RESPONSE
    /\ requests = <<>>

\* await self.connect_to_db(): the pool is there and the loop begins with
\* i = 0, or asyncpg.create_pool raised and the exception leaves run
ConnectToDb ==
    /\ pc = "connect_to_db"
    /\ \/ pc' = "check_db_connection"
       \/ pc' = "raised"
    /\ UNCHANGED <<llmvars, concvars, runvars, llm, raw, query, sql, args, method,
                   generated, fetched, calls, verdict, executed, returned, answer>>

\* "if await self.check_db_connection(): break": the check returns True and
\* the loop is left, or it returns False (an exception of acquire or of
\* fetchval, caught in check_db_connection) and the sleep follows
CheckDbConnection ==
    /\ pc = "check_db_connection"
    /\ \E ok \in BOOLEAN :
          /\ checked' = Append(checked, ok)
          /\ pc' = IF ok THEN "setup_handlers" ELSE "sleep"
    /\ UNCHANGED <<llmvars, concvars, run_i, handlers, polling, llm, raw, query, sql,
                   args, method, generated, fetched, calls, verdict, executed,
                   returned, answer>>

\* await asyncio.sleep(2) is over: the next i of range(30), or the end of
\* the loop, which has no else clause
Sleep ==
    /\ pc = "sleep"
    /\ IF run_i + 1 < DB_CHECKS
       THEN /\ run_i' = run_i + 1
            /\ pc' = "check_db_connection"
       ELSE /\ pc' = "setup_handlers"
            /\ UNCHANGED run_i
    /\ UNCHANGED <<llmvars, concvars, checked, handlers, polling, llm, raw, query, sql,
                   args, method, generated, fetched, calls, verdict, executed,
                   returned, answer>>

\* self.setup_handlers()
SetupHandlers ==
    /\ pc = "setup_handlers"
    /\ handlers' = TRUE
    /\ pc' = "start_polling"
    /\ UNCHANGED <<llmvars, concvars, run_i, checked, polling, llm, raw, query, sql,
                   args, method, generated, fetched, calls, verdict, executed,
                   returned, answer>>

\* await self.dp.start_polling(self.bot)
StartPolling ==
    /\ pc = "start_polling"
    /\ polling' = TRUE
    /\ pc' = "polling"
    /\ UNCHANGED <<llmvars, concvars, run_i, checked, handlers, llm, raw, query, sql,
                   args, method, generated, fetched, calls, verdict, executed,
                   returned, answer>>

RunNext == ConnectToDb \/ CheckDbConnection \/ Sleep \/ SetupHandlers \/ StartPolling

RunSpec == RunInit /\ [][RunNext]_vars

\* C16: run of bot.py makes at most 30 database checks, and registers the
\* handlers and starts polling only after a check_db_connection call
\* returned True: when all 30 checks fail the bot does not start handling
\* messages.
C16_StartsOnlyWhenReady ==
    /\ Len(checked) <= DB_CHECKS
    /\ (handlers \/ polling) => \E k \in DOMAIN checked : checked[k]

=============================================================================
